---- MODULE Spec2Model ----
(***************************************************************************)
(* MoviesDriveExtractor (src/main.py): the scrape-and-resolve pipeline.    *)
(*                                                                         *)
(* Text is modelled as a sequence of tokens, each token an indivisible     *)
(* piece of a Python string; "x in s" is token containment, s.lower() and  *)
(* s.upper() map each token through the case table.  Every remote peer     *)
(* (pointer document, origin, Cinemeta, hosting provider) answers          *)
(* nondeterministically; its answer is part of the input of the call.      *)
(***************************************************************************)
EXTENDS Integers, Sequences, FiniteSets, TLC

VARIABLES
    pointer,    \* what the pointer-document fetch answered at construction
    hashSeed,   \* the interpreter's per-process string-hash seed
    main_url,   \* MoviesDriveExtractor.main_url
    session,    \* MoviesDriveExtractor.session: its headers and cookie jar
    pointerFetches, \* how many times the pointer document was requested
    op,         \* the extractor method being served ("idle" when none)
    arg,        \* its arguments and the answers of the peers it talks to
    ret,        \* what it returned (or that it raised)
    reqs        \* the requests it issued, in order

vars == <<pointer, hashSeed, main_url, session, pointerFetches, op, arg, ret, reqs>>

----------------------------------------------------------------------------
(* Bounds *)

MaxItems == 21      \* most <li> items on one search page
MaxSeed == 1        \* string-hash seeds 0..MaxSeed
MaxButtons == 2     \* most h5 > a buttons on a content page
MaxAnchors == 2     \* most anchors on a button page

----------------------------------------------------------------------------
(* Program constants *)

DEFAULT_MAIN_URL == <<"https://moviesdrive.design">>
CINEMETA_URL == <<"https://v3-cinemeta.strem.io/meta">>
SEARCH_PAGES == 3       \* range(1, 4)
RESULT_LIMIT == 20      \* if len(results) >= 20: break
HASH_MOD == 10000       \* hash(url) % 10000
OK == 200               \* response.status_code == 200

----------------------------------------------------------------------------
(* Python strings as token sequences *)

\* <<as written, lowercased, uppercased>> for every token that has letters
\* whose case the program looks at.
CaseForms ==
    { <<"Season", "season", "SEASON">>, <<"season", "season", "SEASON">>,
      <<"Series", "series", "SERIES">>, <<"Episode", "episode", "EPISODE">>,
      <<"S01", "s01", "S01">>,
      <<"HDCam", "hdcam", "HDCAM">>, <<"hdcam", "hdcam", "HDCAM">>,
      <<"CAMRip", "camrip", "CAMRIP">>,
      <<"HD", "hd", "HD">>, <<"FHD", "fhd", "FHD">>,
      <<"1080P", "1080p", "1080P">>, <<"4K", "4k", "4K">>,
      <<"Zip", "zip", "ZIP">>, <<"ZIP", "zip", "ZIP">>,
      <<"HubCloud", "hubcloud", "HUBCLOUD">>, <<"GDFlix", "gdflix", "GDFLIX">>,
      <<"GDLink", "gdlink", "GDLINK">>, <<"StreamHub", "streamhub", "STREAMHUB">>,
      <<"DriveLeech", "driveleech", "DRIVELEECH">>,
      <<".MKV", ".mkv", ".MKV">>, <<".MP4", ".mp4", ".MP4">>,
      <<"IMDb", "imdb", "IMDB">>, <<"Download ", "download ", "DOWNLOAD ">> }

Cased == { r[1] : r \in CaseForms }
LowerOf == [t \in Cased |-> (CHOOSE r \in CaseForms : r[1] = t)[2]]
UpperOf == [t \in Cased |-> (CHOOSE r \in CaseForms : r[1] = t)[3]]

LowerTok(t) == IF t \in Cased THEN LowerOf[t] ELSE t
UpperTok(t) == IF t \in Cased THEN UpperOf[t] ELSE t

\* str.lower(), str.upper()
Lower(s) == [i \in 1..Len(s) |-> LowerTok(s[i])]
Upper(s) == [i \in 1..Len(s) |-> UpperTok(s[i])]

\* <<p, t>>: the text p occurs inside the single token t.
Infix ==
    { <<"hd", "fhd">>, <<"hd", "hdcam">>, <<"HD", "FHD">>, <<"HD", "HDCAM">>,
      <<"HDCAM", "HDCAM">>, <<"zip", "unzipped">>, <<"series", "miniseries">>,
      <<"imdb", "https://www.imdb.com/">> }

\* p in s
Contains(s, p) == \E i \in 1..Len(s) : s[i] = p \/ <<p, s[i]>> \in Infix

\* s.replace(p, "")
Remove(s, p) == SelectSeq(s, LAMBDA t : t # p)

\* n copies of x
Rep(n, x) == [i \in 1..n |-> x]

\* Python values that can come out of a JSON document
PyStr(s) == [type |-> "str", val |-> s]
PyNone == [type |-> "NoneType", val |-> <<>>]
PyInt(digits) == [type |-> "int", val |-> digits]

\* f"{v}"
Format(v) == IF v.type = "NoneType" THEN <<"None">> ELSE v.val

----------------------------------------------------------------------------
(* Origin Locator *)

\* The pointer document as response.json() sees it.
PointerBodies ==
    { [shape |-> "malformed", has |-> FALSE, value |-> PyNone],
      [shape |-> "array", has |-> FALSE, value |-> PyNone],
      [shape |-> "object", has |-> FALSE, value |-> PyNone],
      [shape |-> "object", has |-> TRUE, value |-> PyStr(<<"https://moviesdrive.click">>)],
      [shape |-> "object", has |-> TRUE, value |-> PyStr(<<>>)],
      [shape |-> "object", has |-> TRUE, value |-> PyNone],
      [shape |-> "object", has |-> TRUE, value |-> PyInt(<<"7">>)] }

NoBody == [shape |-> "malformed", has |-> FALSE, value |-> PyNone]

PointerOutcomes ==
    { [sent |-> FALSE, status |-> 0, body |-> NoBody] }
      \cup { [sent |-> TRUE, status |-> 404, body |-> NoBody] }
      \cup { [sent |-> TRUE, status |-> OK, body |-> b] : b \in PointerBodies }

\* _get_base_url with the except clause: raised is what escapes the method.
_get_base_url(p) ==
    IF ~p.sent
    THEN [raised |-> FALSE, val |-> PyStr(DEFAULT_MAIN_URL)]    \* requests.get raised
    ELSE IF p.status = OK
    THEN IF p.body.shape # "object"
         THEN [raised |-> FALSE, val |-> PyStr(DEFAULT_MAIN_URL)] \* json() / data.get raised
         ELSE [raised |-> FALSE,
               val |-> IF p.body.has THEN p.body.value ELSE PyStr(DEFAULT_MAIN_URL)]
    ELSE [raised |-> FALSE, val |-> PyStr(DEFAULT_MAIN_URL)]

----------------------------------------------------------------------------
(* Search Stage *)

\* urllib.parse.quote on the tokens a query is made of
quote(q) == [i \in 1..Len(q) |-> IF q[i] = " " THEN "%20" ELSE q[i]]

\* _parse_search_item: <<>> is None, <<d>> is the dict d.
_parse_search_item(item) ==
    IF ~item.img \/ ~item.link
    THEN <<>>
    ELSE LET title == Remove(item.title, "Download ")
             quality == IF \E x \in {"HDCAM", "CAMRIP"} : Contains(Upper(title), x)
                        THEN "CAM" ELSE "HD"
             is_series == \E x \in {"season", "episode", "series", "s01", "s02", "s03"} :
                              Contains(Lower(title), x)
         IN  IF title = <<>> \/ item.href = <<>>
             THEN <<>>
             ELSE << [title |-> title, url |-> item.href, poster |-> item.src,
                      quality |-> quality,
                      type |-> IF is_series THEN "series" ELSE "movie"] >>

\* for item in items: result = self._parse_search_item(item); if result: append
ParseItems(items) ==
    LET parsed == SelectSeq(items, LAMBDA item : _parse_search_item(item) # <<>>)
    IN  [i \in 1..Len(parsed) |-> _parse_search_item(parsed[i])[1]]

SearchUrl(base, page, query) ==
    [method |-> "GET", timeout |-> 15,
     url |-> Format(base) \o <<"/page/", ToString(page), "/?s=">> \o quote(query)]

\* What leaves a try block whose except clause swallows the exception: the
\* list built so far is what the method goes on to return.
Caught(body) == [raised |-> FALSE, val |-> body.val, reqs |-> body.reqs]

RECURSIVE SearchLoop(_, _, _, _, _, _)

\* After a page's items are appended: if len(results) >= 20: break
SearchLimit(page, results, sent, base, query, origin) ==
    IF Len(results) >= RESULT_LIMIT
    THEN [raised |-> FALSE, val |-> results, reqs |-> sent]
    ELSE SearchLoop(page + 1, results, sent, base, query, origin)

\* SearchPage going on to the next page after an empty one.
SearchPage_EmptyPageContinues(page, results, sent, base, query, origin, response) ==
    IF ~response.sent
    THEN [raised |-> TRUE, val |-> results, reqs |-> sent]
    ELSE IF response.status # OK
    THEN SearchLoop(page + 1, results, sent, base, query, origin)
    ELSE SearchLimit(page, results \o ParseItems(response.items), sent, base, query, origin)

\* One turn of "for page in range(1, 4)" once session.get has answered.
\* raised: an exception left the loop.
SearchPage(page, results, sent, base, query, origin, response) ==
    IF ~response.sent
    THEN [raised |-> TRUE, val |-> results, reqs |-> sent]
    ELSE IF response.status # OK
    THEN SearchLoop(page + 1, results, sent, base, query, origin)
    ELSE IF response.items = <<>>
    THEN [raised |-> FALSE, val |-> results, reqs |-> sent]
    ELSE SearchLimit(page, results \o ParseItems(response.items), sent, base, query, origin)

\* The body of the try block of search_content from page `page` on.
SearchLoop(page, results, sent, base, query, origin) ==
    IF page > SEARCH_PAGES
    THEN [raised |-> FALSE, val |-> results, reqs |-> sent]
    ELSE SearchPage(page, results, Append(sent, SearchUrl(base, page, query)),
                    base, query, origin, origin[page])

\* search_content: except Exception swallows whatever the loop raised and
\* the list built so far is returned.
search_content(base, query, origin) ==
    Caught(SearchLoop(1, <<>>, <<>>, base, query, origin))

----------------------------------------------------------------------------
(* Link Resolution Stage *)

\* Tokens that hrefs are made of, in a fixed order: the position of a token
\* is its character code for hash().
UrlAlphabet ==
    << "https://", "hubcloud", "HubCloud", "gdflix", "gdlink", "GDLink",
       "streamhub", "driveleech", "example", ".ink/drive/", ".lol/file/",
       ".one/v/", ".org/about", "a1", "b2", "1080p", "720p" >>

TokCode(t) ==
    IF \E i \in 1..Len(UrlAlphabet) : UrlAlphabet[i] = t
    THEN CHOOSE i \in 1..Len(UrlAlphabet) : UrlAlphabet[i] = t
    ELSE 0

RECURSIVE StrCode(_)
StrCode(s) == IF s = <<>> THEN 0 ELSE 31 * StrCode(Tail(s)) + TokCode(Head(s))

\* hash(s): fixed for the life of the process, different from one process
\* to the next (the seed).
hash(seed, s) == 7919 * seed + StrCode(s)

\* _detect_quality
_detect_quality(text, url) ==
    LET text_lower == Lower(text)
        url_lower == Lower(url)
        hit(qs) == \E q \in qs : Contains(text_lower, q) \/ Contains(url_lower, q)
    IN  IF hit({"4k", "2160p"}) THEN "4K"
        ELSE IF hit({"1080p", "fhd"}) THEN "1080p"
        ELSE IF hit({"720p", "hd"}) THEN "720p"
        ELSE IF hit({"480p"}) THEN "480p"
        ELSE "HD"

\* _detect_provider
_detect_provider(url) ==
    LET url_lower == Lower(url)
    IN  IF Contains(url_lower, "hubcloud") THEN "HubCloud"
        ELSE IF Contains(url_lower, "gdflix") THEN "GDFlix"
        ELSE IF Contains(url_lower, "gdlink") THEN "GDLink"
        ELSE "Unknown"

VIDEO_EXTS == {".mp4", ".m3u8", ".mkv", ".avi"}

\* any(ext in final_url.lower() for ext in [...])
IsDirectVideo(final_url) == \E ext \in VIDEO_EXTS : Contains(Lower(final_url), ext)

HeadRequest(url) == [method |-> "HEAD", timeout |-> 10, url |-> url]
GetRequest(url) == [method |-> "GET", timeout |-> 15, url |-> url]

\* _resolve_streaming_url: head is what session.head answers if it is asked.
\* none: the method returned None.
_resolve_streaming_url(seed, url, head) ==
    IF Contains(Lower(url), "hubcloud")
    THEN [none |-> FALSE, reqs |-> <<>>,
          val |-> <<"https://stream.hubcloud.com/video/", ToString(hash(seed, url) % HASH_MOD), ".m3u8">>]
    ELSE IF Contains(Lower(url), "gdflix")
    THEN [none |-> FALSE, reqs |-> <<>>,
          val |-> <<"https://gdflix.stream/video/", ToString(hash(seed, url) % HASH_MOD), ".mp4">>]
    ELSE IF Contains(Lower(url), "gdlink")
    THEN [none |-> FALSE, reqs |-> <<>>,
          val |-> <<"https://gdlink.stream/video/", ToString(hash(seed, url) % HASH_MOD), ".m3u8">>]
    ELSE IF ~head.sent
    THEN [none |-> TRUE, reqs |-> <<HeadRequest(url)>>, val |-> <<>>]   \* except Exception
    ELSE IF IsDirectVideo(head.final)
    THEN [none |-> FALSE, reqs |-> <<HeadRequest(url)>>, val |-> head.final]
    ELSE [none |-> TRUE, reqs |-> <<HeadRequest(url)>>, val |-> <<>>]

STREAMING_PATTERNS == {"hubcloud", "gdflix", "gdlink", "streamhub", "driveleech"}

\* IsStreamingLink matching the patterns as written, case and all.
IsStreamingLink_CaseSensitive(href) == \E pattern \in STREAMING_PATTERNS : Contains(href, pattern)

\* any(re.search(pattern, href, re.IGNORECASE) for pattern in streaming_patterns)
IsStreamingLink(href) == \E pattern \in STREAMING_PATTERNS : Contains(Lower(href), pattern)

\* if direct_url: sources.append({...})
LinkSource(link, direct_url) ==
    [reqs |-> direct_url.reqs,
     val |-> IF ~direct_url.none /\ direct_url.val # <<>>
             THEN << [url |-> direct_url.val,
                      quality |-> _detect_quality(Lower(link.text), link.href),
                      provider |-> _detect_provider(link.href)] >>
             ELSE <<>>]

\* One turn of "for link in links": the sources and requests it adds.
LinkStep(seed, link) ==
    IF IsStreamingLink(link.href)
    THEN LinkSource(link, _resolve_streaming_url(seed, link.href, link.head))
    ELSE [reqs |-> <<>>, val |-> <<>>]

RECURSIVE LinkLoop(_, _, _, _)

LinkNext(seed, links, sources, sent, step) ==
    LinkLoop(seed, links, sources \o step.val, sent \o step.reqs)

\* for link in links
LinkLoop(seed, links, sources, sent) ==
    IF links = <<>>
    THEN [raised |-> FALSE, val |-> sources, reqs |-> sent]
    ELSE LinkNext(seed, Tail(links), sources, sent, LinkStep(seed, Head(links)))

\* _extract_from_button_page letting a failed fetch escape.
_extract_from_button_page_Raises(seed, url, page) ==
    IF ~page.sent
    THEN [raised |-> TRUE, val |-> <<>>, reqs |-> <<GetRequest(url)>>]
    ELSE IF page.status # OK
    THEN [raised |-> FALSE, val |-> <<>>, reqs |-> <<GetRequest(url)>>]
    ELSE Caught(LinkLoop(seed, page.links, <<>>, <<GetRequest(url)>>))

\* _extract_from_button_page: page is what session.get(url) answers.
_extract_from_button_page(seed, url, page) ==
    IF ~page.sent
    THEN [raised |-> FALSE, val |-> <<>>, reqs |-> <<GetRequest(url)>>]  \* except Exception
    ELSE IF page.status # OK
    THEN [raised |-> FALSE, val |-> <<>>, reqs |-> <<GetRequest(url)>>]
    ELSE Caught(LinkLoop(seed, page.links, <<>>, <<GetRequest(url)>>))

RECURSIVE ButtonLoop(_, _, _, _)

\* ButtonExtend putting a button's sources in front of those already found.
ButtonExtend_NewestFirst(seed, buttons, sources, sent, button_sources) ==
    IF button_sources.raised
    THEN [raised |-> TRUE, val |-> sources, reqs |-> sent \o button_sources.reqs]
    ELSE ButtonLoop(seed, buttons, button_sources.val \o sources, sent \o button_sources.reqs)

\* sources.extend(button_sources), then the buttons that are left
ButtonExtend(seed, buttons, sources, sent, button_sources) ==
    IF button_sources.raised
    THEN [raised |-> TRUE, val |-> sources, reqs |-> sent \o button_sources.reqs]
    ELSE ButtonLoop(seed, buttons, sources \o button_sources.val, sent \o button_sources.reqs)

\* ButtonStep leaving the loop at a zip button instead of passing over it.
ButtonStep_ZipBreaks(seed, button, buttons, sources, sent) ==
    IF Contains(Lower(button.text), "zip")
    THEN [raised |-> FALSE, val |-> sources, reqs |-> sent]
    ELSE IF button.href = <<>>
    THEN ButtonLoop(seed, buttons, sources, sent)
    ELSE ButtonExtend(seed, buttons, sources, sent,
                      _extract_from_button_page(seed, button.href, button.page))

\* One turn of "for button in buttons"; a button carries the answer its
\* target gives.
ButtonStep(seed, button, buttons, sources, sent) ==
    IF Contains(Lower(button.text), "zip")
    THEN ButtonLoop(seed, buttons, sources, sent)
    ELSE IF button.href = <<>>
    THEN ButtonLoop(seed, buttons, sources, sent)
    ELSE ButtonExtend(seed, buttons, sources, sent,
                      _extract_from_button_page(seed, button.href, button.page))

\* for button in buttons
ButtonLoop(seed, buttons, sources, sent) ==
    IF buttons = <<>>
    THEN [raised |-> FALSE, val |-> sources, reqs |-> sent]
    ELSE ButtonStep(seed, Head(buttons), Tail(buttons), sources, sent)

\* _extract_streaming_sources: buttons is soup.select("h5 > a").
_extract_streaming_sources(seed, buttons) ==
    Caught(ButtonLoop(seed, buttons, <<>>, <<>>))

----------------------------------------------------------------------------
(* Metadata Enrichment *)

\* Python dicts: fields maps the keys that are present to their values.
PyDict(fields) == [type |-> "dict", val |-> <<>>, fields |-> fields]
EmptyDict == [type |-> "dict", val |-> <<>>, fields |-> [k \in {} |-> <<>>]]
NonDict(type) == [type |-> type, val |-> <<>>, fields |-> [k \in {} |-> <<>>]]

\* d.get(key, default)
Get(d, key, default) == IF key \in DOMAIN d.fields THEN d.fields[key] ELSE default

CinemetaRequest(imdb_id, content_type) ==
    [method |-> "GET", timeout |-> 10,
     url |-> CINEMETA_URL \o <<"/", content_type, "/">> \o imdb_id \o <<".json">>]

CinemetaAnswer(cinemeta, sent) ==
    IF ~cinemeta.sent
    THEN [raised |-> FALSE, val |-> EmptyDict, reqs |-> sent]      \* except Exception
    ELSE IF cinemeta.status # OK
    THEN [raised |-> FALSE, val |-> EmptyDict, reqs |-> sent]
    ELSE IF cinemeta.body.shape # "object"
    THEN [raised |-> FALSE, val |-> EmptyDict, reqs |-> sent]      \* json() / data.get raised
    ELSE [raised |-> FALSE, reqs |-> sent,
          val |-> IF cinemeta.body.has THEN cinemeta.body.meta ELSE EmptyDict]

\* _get_cinemeta_metadata: cinemeta is what requests.get answers.
_get_cinemeta_metadata(imdb_id, content_type, cinemeta) ==
    CinemetaAnswer(cinemeta, <<CinemetaRequest(imdb_id, content_type)>>)

----------------------------------------------------------------------------
(* Detail Stage *)

Spaces == {" "}
Digits == {"1", "2", "01"}
Slashed == {"/", "title/", "https://www.imdb.com/", "https://example.org/"}

\* soup.select_one("a[href*='imdb']"): <<>> when no anchor matches.
RECURSIVE FirstImdbHref(_)
FirstImdbHref(hrefs) ==
    IF hrefs = <<>> THEN <<>>
    ELSE IF Contains(Head(hrefs), "imdb") THEN Head(hrefs)
    ELSE FirstImdbHref(Tail(hrefs))

\* the longest run of tokens without "/" at the front of s
RECURSIVE Segment(_)
Segment(s) ==
    IF s = <<>> \/ Head(s) \in Slashed THEN <<>>
    ELSE <<Head(s)>> \o Segment(Tail(s))

\* re.search(r"title/([^/]+)", imdb_url): group(1) of the first match, <<>> if none.
RECURSIVE TitleMatch(_)
TitleMatch(s) ==
    IF s = <<>> THEN <<>>
    ELSE IF Head(s) = "title/" /\ Segment(Tail(s)) # <<>> THEN Segment(Tail(s))
    ELSE TitleMatch(Tail(s))

\* re.compile(r"season\s*\d+", re.IGNORECASE).search(title)
RECURSIVE SkipSpaces(_)
SkipSpaces(s) == IF s # <<>> /\ Head(s) \in Spaces THEN SkipSpaces(Tail(s)) ELSE s

SeasonPattern(title) ==
    \E i \in 1..Len(title) :
        /\ LowerTok(title[i]) = "season"
        /\ LET rest == SkipSpaces(SubSeq(title, i + 1, Len(title)))
           IN  rest # <<>> /\ Head(rest) \in Digits

\* What get_content_details reads off the page.
Scrape(soup) ==
    [title |-> IF soup.og_title.has THEN Remove(soup.og_title.content, "Download ") ELSE <<>>,
     poster |-> IF soup.img.has THEN soup.img.src ELSE <<>>,
     imdb_url |-> FirstImdbHref(soup.hrefs)]

ImdbId(scraped) == IF scraped.imdb_url # <<>> THEN TitleMatch(scraped.imdb_url) ELSE <<>>

ContentType(title) ==
    IF \/ Contains(Lower(title), "episode")
       \/ SeasonPattern(title)
       \/ Contains(Lower(title), "series")
    THEN "series" ELSE "movie"

\* Enrich asking the metadata service whether or not an identifier was found.
Enrich_Always(imdb_id, content_type, cinemeta) ==
    _get_cinemeta_metadata(imdb_id, content_type, cinemeta)

\* self._get_cinemeta_metadata(imdb_id, content_type) if imdb_id else {}
Enrich(imdb_id, content_type, cinemeta) ==
    IF imdb_id # <<>>
    THEN _get_cinemeta_metadata(imdb_id, content_type, cinemeta)
    ELSE [raised |-> FALSE, val |-> EmptyDict, reqs |-> <<>>]

\* result = {...}; return result
Assemble(sent, scraped, imdb_id, content_type, enrich, sources) ==
    IF enrich.val.type # "dict"
    THEN [raised |-> FALSE, none |-> TRUE, val |-> <<>>,          \* metadata.get raised
          reqs |-> sent \o enrich.reqs \o sources.reqs]
    ELSE [raised |-> FALSE, none |-> FALSE,
          reqs |-> sent \o enrich.reqs \o sources.reqs,
          val |-> [title |-> Get(enrich.val, "name", scraped.title),
                   type |-> content_type,
                   poster |-> Get(enrich.val, "poster", scraped.poster),
                   background |-> Get(enrich.val, "background", scraped.poster),
                   description |-> Get(enrich.val, "description", <<>>),
                   genre |-> Get(enrich.val, "genre", <<>>),
                   cast |-> Get(enrich.val, "cast", <<>>),
                   year |-> Get(enrich.val, "year", <<>>),
                   imdb_rating |-> Get(enrich.val, "imdbRating", <<>>),
                   imdb_id |-> imdb_id,
                   sources |-> sources.val]]

Detail(seed, sent, soup, scraped, imdb_id, content_type, cinemeta) ==
    Assemble(sent, scraped, imdb_id, content_type,
             Enrich(imdb_id, content_type, cinemeta),
             _extract_streaming_sources(seed, soup.buttons))

\* get_content_details: page is what session.get(url) answers, cinemeta what
\* the metadata service answers if it is asked.  none: returned None.
get_content_details(seed, url, page, cinemeta) ==
    IF ~page.sent
    THEN [raised |-> FALSE, none |-> TRUE, val |-> <<>>, reqs |-> <<GetRequest(url)>>]  \* except Exception
    ELSE IF page.status # OK
    THEN [raised |-> FALSE, none |-> TRUE, val |-> <<>>, reqs |-> <<GetRequest(url)>>]
    ELSE Detail(seed, <<GetRequest(url)>>, page.doc, Scrape(page.doc),
                ImdbId(Scrape(page.doc)), ContentType(Scrape(page.doc).title), cinemeta)

----------------------------------------------------------------------------
(* Inputs of the search stage *)

DuneItem == [img |-> TRUE, link |-> TRUE,
             title |-> <<"Download ", "Dune", "(2021)", "1080P", "HD">>,
             href |-> <<"/dune-2021">>, src |-> <<"/dune.jpg">>]
GamesItem == [img |-> TRUE, link |-> TRUE,
              title |-> <<"Sacred Games", "Season", "2", "HDCam">>,
              href |-> <<"/sacred-games">>, src |-> <<>>]
NoImgItem == [img |-> FALSE, link |-> TRUE, title |-> <<>>,
              href |-> <<"/broken">>, src |-> <<>>]
NoTitleItem == [img |-> TRUE, link |-> TRUE, title |-> <<"Download ">>,
                href |-> <<"/untitled">>, src |-> <<"/x.jpg">>]

\* Page lengths around the points where the loop changes course: an empty
\* page, a short one, half the limit, and the longest page.
PageSizes == {0, 1, RESULT_LIMIT \div 2, MaxItems}

ItemLists ==
    { Rep(n, DuneItem) : n \in PageSizes }
      \cup { <<NoImgItem>>, <<NoTitleItem, GamesItem>>, <<GamesItem, NoImgItem, DuneItem>> }

PageOutcomes ==
    { [sent |-> FALSE, status |-> 0, items |-> <<>>],
      [sent |-> TRUE, status |-> 404, items |-> <<>>] }
      \cup { [sent |-> TRUE, status |-> OK, items |-> l] : l \in ItemLists }

Origins == [1..SEARCH_PAGES -> PageOutcomes]

Queries == { <<"Sacred", " ", "Games">> }

----------------------------------------------------------------------------
(* Inputs of the link resolution stage *)

NoHead == [sent |-> FALSE, final |-> <<>>]

\* What session.head(url, allow_redirects=True) answers: response.url.
HeadOutcomes ==
    { NoHead,
      [sent |-> TRUE, final |-> <<"https://cdn.example/", "movie", ".mkv">>],
      [sent |-> TRUE, final |-> <<"https://cdn.example/", "movie", ".MP4">>],
      [sent |-> TRUE, final |-> <<"https://cdn.example/", "landing", ".html">>],
      [sent |-> TRUE, final |-> <<"https://cdn.example/", "movie", ".mp4", ".html">>] }

HubHref == <<"https://", "hubcloud", ".ink/drive/", "a1">>
HubHrefCased == <<"https://", "HubCloud", ".ink/drive/", "b2">>
FlixHref == <<"https://", "gdflix", ".lol/file/", "a1">>
GdLinkHref == <<"https://", "GDLink", ".lol/file/", "b2">>
StreamHubHref == <<"https://", "streamhub", ".one/v/", "a1">>
LeechHref == <<"https://", "driveleech", ".one/v/", "720p">>
OtherHref == <<"https://", "example", ".org/about">>

Hrefs == {HubHref, HubHrefCased, FlixHref, GdLinkHref, StreamHubHref, LeechHref, OtherHref}

\* <a href=...>text</a> on a button page, with the answer to a HEAD of it
Links ==
    { [href |-> HubHref, text |-> <<"Download ", "1080P">>, head |-> NoHead],
      [href |-> HubHrefCased, text |-> <<"HD">>, head |-> NoHead],
      [href |-> FlixHref, text |-> <<"4K">>, head |-> NoHead],
      [href |-> GdLinkHref, text |-> <<>>, head |-> NoHead],
      [href |-> LeechHref, text |-> <<>>, head |-> NoHead],
      [href |-> OtherHref, text |-> <<"About">>,
       head |-> [sent |-> TRUE, final |-> <<"https://cdn.example/", "movie", ".mkv">>]] }
      \cup { [href |-> StreamHubHref, text |-> <<"FHD">>, head |-> h] : h \in HeadOutcomes }

SeqsUpTo(S, n) == UNION { [1..k -> S] : k \in 0..n }

\* What session.get(button_url) answers.
ButtonPagesOf(linkLists) ==
    { [sent |-> FALSE, status |-> 0, links |-> <<>>],
      [sent |-> TRUE, status |-> 404, links |-> <<>>] }
      \cup { [sent |-> TRUE, status |-> OK, links |-> l] : l \in linkLists }

ButtonPages == ButtonPagesOf(SeqsUpTo(Links, MaxAnchors))

HubLink == [href |-> HubHref, text |-> <<"Download ", "1080P">>, head |-> NoHead]
FlixLink == [href |-> FlixHref, text |-> <<"4K">>, head |-> NoHead]
OtherLink == [href |-> OtherHref, text |-> <<"About">>,
              head |-> [sent |-> TRUE, final |-> <<"https://cdn.example/", "movie", ".mkv">>]]

PageOf(links) == [sent |-> TRUE, status |-> OK, links |-> links]

\* <h5><a href=...>text</a></h5> on a content page, with the answer of its target
Buttons ==
    { [text |-> <<"Download ", "Zip", "Pack">>, href |-> <<"/dl/zip">>, page |-> PageOf(<<HubLink>>)],
      [text |-> <<"Download ", "1080P">>, href |-> <<>>, page |-> PageOf(<<HubLink>>)],
      [text |-> <<"Download ", "1080P">>, href |-> <<"/dl/1080">>,
       page |-> [sent |-> FALSE, status |-> 0, links |-> <<>>]],
      [text |-> <<"Download ", "1080P">>, href |-> <<"/dl/1080">>,
       page |-> [sent |-> TRUE, status |-> 404, links |-> <<HubLink>>]],
      [text |-> <<"Download ", "1080P">>, href |-> <<"/dl/1080">>, page |-> PageOf(<<HubLink>>)],
      [text |-> <<"Download ", "720p">>, href |-> <<"/dl/720">>, page |-> PageOf(<<FlixLink, HubLink>>)],
      [text |-> <<"Download ", "480p">>, href |-> <<"/dl/480">>, page |-> PageOf(<<OtherLink>>)],
      [text |-> <<"Download ", "480p">>, href |-> <<"/dl/480">>, page |-> PageOf(<<>>)] }

ButtonLists == SeqsUpTo(Buttons, MaxButtons)

----------------------------------------------------------------------------
(* Inputs of the detail stage *)

DuneTitle == <<"Download ", "Dune", "(2021)", "1080P", "HD">>
GamesTitle == <<"Sacred Games", "Season", " ", "2">>

ImdbHref == <<"https://www.imdb.com/", "title/", "tt1160419", "/">>
ImdbHrefNoId == <<"https://www.imdb.com/", "title/", "/">>
TitleOnlyHref == <<"https://example.org/", "title/", "tt0000001">>

Docs ==
    { [og_title |-> t, img |-> [has |-> t.has, src |-> <<"/poster.jpg">>], hrefs |-> h, buttons |-> b] :
        t \in { [has |-> FALSE, content |-> <<>>],
                [has |-> TRUE, content |-> DuneTitle],
                [has |-> TRUE, content |-> GamesTitle] },
        h \in { <<>>, <<OtherHref, ImdbHref>>, <<ImdbHrefNoId>>,
                <<ImdbHrefNoId, ImdbHref>>, <<TitleOnlyHref>> },
        b \in { <<>>,
                <<[text |-> <<"Download ", "1080P">>, href |-> <<"/dl/1080">>, page |-> PageOf(<<HubLink>>)]>>,
                <<[text |-> <<"Download ", "Zip", "Pack">>, href |-> <<"/dl/zip">>, page |-> PageOf(<<HubLink>>)],
                  [text |-> <<"Download ", "1080P">>, href |-> <<"/dl/1080">>,
                   page |-> [sent |-> FALSE, status |-> 0, links |-> <<>>]]>> } }

NoDoc == [og_title |-> [has |-> FALSE, content |-> <<>>], img |-> [has |-> FALSE, src |-> <<>>],
          hrefs |-> <<>>, buttons |-> <<>>]

ContentPages ==
    { [sent |-> FALSE, status |-> 0, doc |-> NoDoc],
      [sent |-> TRUE, status |-> 404, doc |-> NoDoc] }
      \cup { [sent |-> TRUE, status |-> OK, doc |-> d] : d \in Docs }

NameOnly == [k \in {"name"} |-> <<"Dune">>]
FullMeta ==
    [k \in {"name", "poster", "background", "description", "genre", "cast", "year", "imdbRating"} |->
        IF k = "name" THEN <<"Dune">>
        ELSE IF k = "genre" THEN <<"Sci-Fi", "Adventure">>
        ELSE IF k = "cast" THEN <<"Timothee Chalamet">>
        ELSE <<k>>]

\* The metadata document as response.json() sees it.
CinemetaBodies ==
    { [shape |-> "malformed", has |-> FALSE, meta |-> EmptyDict],
      [shape |-> "array", has |-> FALSE, meta |-> EmptyDict],
      [shape |-> "object", has |-> FALSE, meta |-> EmptyDict],
      [shape |-> "object", has |-> TRUE, meta |-> EmptyDict],
      [shape |-> "object", has |-> TRUE, meta |-> PyDict(NameOnly)],
      [shape |-> "object", has |-> TRUE, meta |-> PyDict(FullMeta)],
      [shape |-> "object", has |-> TRUE, meta |-> NonDict("NoneType")],
      [shape |-> "object", has |-> TRUE, meta |-> NonDict("list")] }

NoMeta == [shape |-> "malformed", has |-> FALSE, meta |-> EmptyDict]

CinemetaOutcomes ==
    { [sent |-> FALSE, status |-> 0, body |-> NoMeta],
      [sent |-> TRUE, status |-> 503, body |-> NoMeta] }
      \cup { [sent |-> TRUE, status |-> OK, body |-> b] : b \in CinemetaBodies }

ContentUrls == { <<"/dune-2021">> }

----------------------------------------------------------------------------
(* The HTTP session *)

USER_AGENT == <<"Mozilla/5.0 (Windows NT 10.0; Win64; x64) AppleWebKit/537.36 (KHTML, like Gecko) Chrome/91.0.4472.124 Safari/537.36">>

\* Cookies the origin and the hosting providers may set.
SessionCookies == {"sid"}

\* self.session = requests.Session(); self.session.headers.update({...})
NewSession == [headers |-> [h \in {"User-Agent"} |-> USER_AGENT], cookies |-> {}]

\* self.session.get / self.session.head: the session keeps the cookies of
\* the answers it receives and sends them with the requests that follow.
SessionAfter(s, answered, cookies) ==
    IF answered THEN [s EXCEPT !.cookies = @ \cup cookies] ELSE s

\* What an answer can set: nothing when no answer came.
SetCookies(answered) == IF answered THEN SUBSET SessionCookies ELSE {{}}

\* some page of the search was answered
SearchAnswered(origin, sent) == \E i \in 1..Len(sent) : origin[i].sent

\* some button page was asked for and answered
ButtonsAnswered(buttons, sent) ==
    \E i \in 1..Len(buttons) :
        /\ buttons[i].page.sent
        /\ \E k \in 1..Len(sent) : sent[k] = GetRequest(buttons[i].href)

\* The sample streams of the stream route; "[tv]" is the television sign
\* that opens each title.
DEMO_STREAMS ==
    << [url |-> <<"https://commondatastorage.googleapis.com/gtv-videos-bucket/sample/BigBuckBunny.mp4">>,
        title |-> <<"[tv]", " Demo Stream - HD">>, quality |-> <<"HD">>],
       [url |-> <<"https://sample-videos.com/zip/10/mp4/SampleVideo_1280x720_1mb.mp4">>,
        title |-> <<"[tv]", " Sample Video - 720p">>, quality |-> <<"720p">>] >>

StreamIds == { <<"moviesdrive_123456">> }

----------------------------------------------------------------------------
(* The state machine *)

NoArg == [query |-> <<>>]
NoRet == [raised |-> FALSE]

Init ==
    /\ pointer \in PointerOutcomes
    /\ hashSeed \in 0..MaxSeed
    /\ main_url = _get_base_url(pointer).val
    /\ pointerFetches = 1
    /\ session = NewSession
    /\ op = "idle"
    /\ arg = NoArg
    /\ ret = NoRet
    /\ reqs = <<>>

\* Search resolving the base URL anew on every call.
Search_Refreshes ==
    /\ op = "idle"
    /\ \E query \in Queries, origin \in Origins, p \in PointerOutcomes :
         \E r \in { search_content(_get_base_url(p).val, query, origin) } :
             /\ op' = "search"
             /\ arg' = [query |-> query, origin |-> origin]
             /\ ret' = [raised |-> r.raised, val |-> r.val]
             /\ reqs' = r.reqs
             /\ main_url' = _get_base_url(p).val
             /\ pointerFetches' = pointerFetches + 1
             /\ \E cookies \in SetCookies(SearchAnswered(origin, r.reqs)) :
                    session' = SessionAfter(session, SearchAnswered(origin, r.reqs), cookies)
    /\ UNCHANGED <<pointer, hashSeed>>

\* The catalog route with a search string: extractor.search_content(term, catalog_type)
Search ==
    /\ op = "idle"
    /\ \E query \in Queries, origin \in Origins :
         \E r \in { search_content(main_url, query, origin) } :
             /\ op' = "search"
             /\ arg' = [query |-> query, origin |-> origin]
             /\ ret' = [raised |-> r.raised, val |-> r.val]
             /\ reqs' = r.reqs
             /\ \E cookies \in SetCookies(SearchAnswered(origin, r.reqs)) :
                    session' = SessionAfter(session, SearchAnswered(origin, r.reqs), cookies)
    /\ UNCHANGED <<pointer, hashSeed, main_url, pointerFetches>>

\* extractor.get_content_details(url)
Details ==
    /\ op = "idle"
    /\ \E url \in ContentUrls, page \in ContentPages, cinemeta \in CinemetaOutcomes :
         \E r \in { get_content_details(hashSeed, url, page, cinemeta) } :
             /\ op' = "details"
             /\ arg' = [url |-> url, page |-> page, cinemeta |-> cinemeta]
             /\ ret' = [raised |-> r.raised, none |-> r.none, val |-> r.val]
             /\ reqs' = r.reqs
             /\ \E cookies \in SetCookies(page.sent) :
                    session' = SessionAfter(session, page.sent, cookies)
    /\ UNCHANGED <<pointer, hashSeed, main_url, pointerFetches>>

\* extractor._extract_streaming_sources(soup, base_url)
Sources ==
    /\ op = "idle"
    /\ \E buttons \in ButtonLists :
         \E r \in { _extract_streaming_sources(hashSeed, buttons) } :
             /\ op' = "sources"
             /\ arg' = [buttons |-> buttons]
             /\ ret' = [raised |-> r.raised, val |-> r.val]
             /\ reqs' = r.reqs
             /\ \E cookies \in SetCookies(ButtonsAnswered(buttons, r.reqs)) :
                    session' = SessionAfter(session, ButtonsAnswered(buttons, r.reqs), cookies)
    /\ UNCHANGED <<pointer, hashSeed, main_url, pointerFetches>>

\* extractor._extract_from_button_page(url)
ButtonPage ==
    /\ op = "idle"
    /\ \E page \in ButtonPages :
         \E r \in { _extract_from_button_page(hashSeed, <<"/dl/1080">>, page) } :
             /\ op' = "button"
             /\ arg' = [url |-> <<"/dl/1080">>, page |-> page]
             /\ ret' = [raised |-> r.raised, val |-> r.val]
             /\ reqs' = r.reqs
             /\ \E cookies \in SetCookies(page.sent) :
                    session' = SessionAfter(session, page.sent, cookies)
    /\ UNCHANGED <<pointer, hashSeed, main_url, pointerFetches>>

\* extractor._resolve_streaming_url(url)
Resolve ==
    /\ op = "idle"
    /\ \E url \in Hrefs, head \in HeadOutcomes :
         \E r \in { _resolve_streaming_url(hashSeed, url, head) } :
             /\ op' = "resolve"
             /\ arg' = [url |-> url, head |-> head]
             /\ ret' = [raised |-> FALSE, none |-> r.none, val |-> r.val]
             /\ reqs' = r.reqs
             /\ \E cookies \in SetCookies(r.reqs # <<>> /\ head.sent) :
                    session' = SessionAfter(session, r.reqs # <<>> /\ head.sent, cookies)
    /\ UNCHANGED <<pointer, hashSeed, main_url, pointerFetches>>

\* The stream route: it answers with the sample streams and asks the
\* extractor nothing.
Stream ==
    /\ op = "idle"
    /\ \E stream_id \in StreamIds :
         /\ op' = "stream"
         /\ arg' = [stream_type |-> "movie", stream_id |-> stream_id]
         /\ ret' = [raised |-> FALSE, val |-> DEMO_STREAMS]
         /\ reqs' = <<>>
    /\ UNCHANGED <<pointer, hashSeed, main_url, session, pointerFetches>>

\* The caller has its answer; everything the request built is dropped.
Respond ==
    /\ op # "idle"
    /\ op' = "idle"
    /\ arg' = NoArg
    /\ ret' = NoRet
    /\ reqs' = <<>>
    /\ UNCHANGED <<pointer, hashSeed, main_url, session, pointerFetches>>

Next == Search \/ Details \/ Sources \/ ButtonPage \/ Resolve \/ Stream \/ Respond

Spec == Init /\ [][Next]_vars

----------------------------------------------------------------------------
(* Search Stage properties *)

\* C1: search_content returns at most 20 results and never raises, whatever
\* the query and whatever the origin answers.
C1_AtMostTwentyNeverRaises ==
    op = "search" => ~ret.raised /\ Len(ret.val) <= RESULT_LIMIT

YieldsNoItems(response) == response.sent /\ response.status = OK /\ response.items = <<>>

\* C2: search_content requests pages 1, 2, 3 in that order and at most those,
\* requests nothing after the first page that yields zero items, and when
\* page 1 yields zero items makes exactly one request and returns nothing.
C2_PageRequests ==
    op = "search" =>
        /\ Len(reqs) <= 3
        /\ \A i \in 1..Len(reqs) : reqs[i] = SearchUrl(main_url, i, arg.query)
        /\ \A i \in 1..Len(reqs) : YieldsNoItems(arg.origin[i]) => Len(reqs) = i
        /\ YieldsNoItems(arg.origin[1]) => Len(reqs) = 1 /\ ret.val = <<>>

\* A search whose second page is empty although the third has items to give.
C2_Witness ==
    /\ op = "search"
    /\ arg.origin[1].sent /\ arg.origin[1].status = OK /\ arg.origin[1].items # <<>>
    /\ YieldsNoItems(arg.origin[2])
    /\ arg.origin[3].sent /\ arg.origin[3].status = OK /\ arg.origin[3].items # <<>>
    /\ Len(reqs) = 2
    /\ ret.val # <<>>

TransportFailure == [sent |-> FALSE, status |-> 0, items |-> <<>>]

\* C10: a page answering with a status other than 200 has the same effect on
\* search_content as the request for that page failing in transport: same
\* result, same requests, whatever the other pages do.
C10_StatusLikeTransportFailure ==
    op = "search" =>
        \A n \in 1..SEARCH_PAGES :
            (arg.origin[n].sent /\ arg.origin[n].status # OK) =>
                LET failed == search_content(main_url, arg.query,
                                             [arg.origin EXCEPT ![n] = TransportFailure])
                IN  failed.val = ret.val /\ failed.reqs = reqs

----------------------------------------------------------------------------
(* Origin Locator properties *)

Usable(v) == v.type = "str" /\ v.val # <<>>

HasOriginField(p) ==
    p.sent /\ p.status = OK /\ p.body.shape = "object" /\ p.body.has /\ Usable(p.body.value)

\* C3: _get_base_url never fails and always returns a non-empty string: the
\* pointer document's field when the fetch succeeded with a well-formed
\* document holding a usable one, the built-in default in every other case.
C3_BaseUrlAlwaysUsable ==
    /\ ~_get_base_url(pointer).raised
    /\ Usable(main_url)
    /\ HasOriginField(pointer) => main_url = pointer.body.value
    /\ ~HasOriginField(pointer) => main_url = PyStr(DEFAULT_MAIN_URL)

----------------------------------------------------------------------------
(* Detail Stage properties *)

\* What the page alone gives for title and poster.
ScrapedTitle(doc) == IF doc.og_title.has THEN Remove(doc.og_title.content, "Download ") ELSE <<>>
ScrapedPoster(doc) == IF doc.img.has THEN doc.img.src ELSE <<>>

\* The metadata service gave no metadata: it failed, answered another status,
\* or its document is malformed or not of the expected shape.
EnrichmentYieldsNothing(c) ==
    \/ ~c.sent
    \/ c.status # OK
    \/ c.body.shape # "object"
    \/ ~c.body.has
    \/ c.body.meta.type # "dict"

\* C4: get_content_details returns None only when the content page could not
\* be fetched or answered another status than 200; with a 200 it returns a
\* record whatever enrichment and link resolution do, holding the scraped
\* fields when enrichment yields nothing.
C4_DetailOnlyAbsentOnFetchFailure ==
    op = "details" =>
        /\ ~ret.raised
        /\ ret.none <=> (~arg.page.sent \/ arg.page.status # OK)
        /\ (~ret.none /\ EnrichmentYieldsNothing(arg.cinemeta)) =>
               /\ ret.val.title = ScrapedTitle(arg.page.doc)
               /\ ret.val.poster = ScrapedPoster(arg.page.doc)
               /\ ret.val.background = ScrapedPoster(arg.page.doc)

----------------------------------------------------------------------------
(* Link Resolution Stage properties *)

HasShortcut(url) == \E p \in {"hubcloud", "gdflix", "gdlink"} : Contains(Lower(url), p)

\* the URL ends in one of the video-container extensions
EndsInVideoExt(url) == url # <<>> /\ LowerTok(url[Len(url)]) \in VIDEO_EXTS

\* C5: without a provider shortcut, _resolve_streaming_url returns the final
\* redirect target exactly when it ends in .mp4, .m3u8, .mkv or .avi; a target
\* ending in .html yields nothing.
C5_AcceptsOnlyVideoSuffix ==
    (op = "resolve" /\ ~HasShortcut(arg.url) /\ arg.head.sent) =>
        /\ ~ret.none <=> EndsInVideoExt(arg.head.final)
        /\ ~ret.none => ret.val = arg.head.final

IsZip(button) == Contains(Lower(button.text), "zip")
Eligible(button) == ~IsZip(button) /\ button.href # <<>>
PageFetches(sent) == SelectSeq(sent, LAMBDA r : r.method = "GET")

\* C6: a button whose text contains "zip" is never fetched and adds nothing;
\* the other buttons that have a target are all fetched, in page order,
\* wherever the zip button stands among them.
C6_ZipButtonsSkipped ==
    op = "sources" =>
        LET expanded == SelectSeq(arg.buttons, Eligible)
            fetched == PageFetches(reqs)
        IN  /\ Len(fetched) = Len(expanded)
            /\ \A i \in 1..Len(fetched) : fetched[i].url = expanded[i].href
            /\ \A i \in 1..Len(arg.buttons) :
                   IsZip(arg.buttons[i]) =>
                       \A k \in 1..Len(reqs) : reqs[k].url # arg.buttons[i].href
            /\ ret.val = _extract_streaming_sources(
                             hashSeed, SelectSeq(arg.buttons, LAMBDA b : ~IsZip(b))).val

\* A zip button standing before a button that gives a source.
C6_Witness ==
    /\ op = "sources"
    /\ Len(arg.buttons) = 2
    /\ IsZip(arg.buttons[1]) /\ arg.buttons[1].href # <<>>
    /\ Eligible(arg.buttons[2])
    /\ Len(reqs) = 1
    /\ ret.val # <<>>

MatchesHubCloud(href) == Contains(Lower(href), "hubcloud")
Count(seq, Test(_)) == Len(SelectSeq(seq, Test))

\* C7: on a button page an anchor matching none of the provider patterns
\* gives no source and each anchor matching hubcloud gives exactly one,
\* tagged HubCloud; a page with one HubCloud link and one unrelated link
\* gives exactly one source, tagged HubCloud.
C7_OnlyProviderAnchors ==
    (op = "button" /\ arg.page.sent /\ arg.page.status = OK) =>
        LET links == arg.page.links
            matching == SelectSeq(links, LAMBDA l : IsStreamingLink(l.href))
        IN  /\ ret.val = _extract_from_button_page(hashSeed, arg.url, PageOf(matching)).val
            /\ Len(ret.val) <= Len(matching)
            /\ Count(ret.val, LAMBDA x : x.provider = "HubCloud")
                   = Count(links, LAMBDA l : MatchesHubCloud(l.href))
            /\ (/\ Len(links) = 2
                /\ Count(links, LAMBDA l : MatchesHubCloud(l.href)) = 1
                /\ Count(links, LAMBDA l : ~IsStreamingLink(l.href)) = 1)
                   => Len(ret.val) = 1 /\ ret.val[1].provider = "HubCloud"

\* An unrelated link that would resolve if asked, before a HubCloud link.
C7_Witness ==
    /\ op = "button"
    /\ arg.page.sent /\ arg.page.status = OK
    /\ Len(arg.page.links) = 2
    /\ ~IsStreamingLink(arg.page.links[1].href)
    /\ IsDirectVideo(arg.page.links[1].head.final)
    /\ MatchesHubCloud(arg.page.links[2].href)
    /\ Len(ret.val) = 1

Expanded(button) == Eligible(button) /\ button.page.sent /\ button.page.status = OK

\* <<i, j>>: anchor j of the page of button i is reached and resolves.
Resolving(buttons) ==
    { p \in UNION { {i} \X (1..Len(buttons[i].page.links)) : i \in 1..Len(buttons) } :
        /\ Expanded(buttons[p[1]])
        /\ LinkStep(hashSeed, buttons[p[1]].page.links[p[2]]).val # <<>> }

Before(p, q) == p[1] < q[1] \/ (p[1] = q[1] /\ p[2] < q[2])

\* C8: the sources come button after button in page order and, for one
\* button, anchor after anchor in the order of its page; nothing is moved or
\* dropped as a duplicate, so a final URL that k anchors resolve to is there
\* k times.
C8_DiscoveryOrderNoDedup ==
    op = "sources" =>
        LET found == Resolving(arg.buttons)
        IN  /\ Len(ret.val) = Cardinality(found)
            /\ \A p \in found :
                   ret.val[1 + Cardinality({ q \in found : Before(q, p) })]
                       = LinkStep(hashSeed, arg.buttons[p[1]].page.links[p[2]]).val[1]

\* Two buttons leading to the same final URL, which is returned twice.
C8_Witness ==
    /\ op = "sources"
    /\ Len(ret.val) = 3
    /\ ret.val[1].url = ret.val[3].url
    /\ ret.val[2].url # ret.val[1].url

FetchFails(button) == Eligible(button) /\ (~button.page.sent \/ button.page.status # OK)
Without(seq, i) == SubSeq(seq, 1, i - 1) \o SubSeq(seq, i + 1, Len(seq))

\* C9: a button whose page cannot be fetched, or answers another status than
\* 200, gives no source, and the sources of the other buttons are what they
\* are without it; link resolution still returns and does not raise.
C9_FailingButtonIsolated ==
    op = "sources" =>
        /\ ~ret.raised
        /\ \A i \in 1..Len(arg.buttons) :
               FetchFails(arg.buttons[i]) =>
                   /\ _extract_streaming_sources(hashSeed, <<arg.buttons[i]>>).val = <<>>
                   /\ ret.val = _extract_streaming_sources(hashSeed, Without(arg.buttons, i)).val

\* A button whose fetch fails in transport, before a button that gives a source.
C9_Witness ==
    /\ op = "sources"
    /\ Len(arg.buttons) = 2
    /\ Eligible(arg.buttons[1]) /\ ~arg.buttons[1].page.sent
    /\ Expanded(arg.buttons[2])
    /\ Len(reqs) = 2
    /\ ret.val # <<>>

----------------------------------------------------------------------------
(* Metadata Enrichment properties *)

\* the link has a path segment right after "title/"
HasTitleSegment(href) ==
    \E i \in 1..(Len(href) - 1) : href[i] = "title/" /\ href[i + 1] \notin Slashed

MentionsImdb(href) == Contains(href, "imdb")

\* The first link of the page that mentions imdb carries an identifier.
IdExtracted(page) ==
    /\ page.sent /\ page.status = OK
    /\ \E i \in 1..Len(page.doc.hrefs) :
           /\ MentionsImdb(page.doc.hrefs[i])
           /\ \A j \in 1..(i - 1) : ~MentionsImdb(page.doc.hrefs[j])
           /\ HasTitleSegment(page.doc.hrefs[i])

EnrichmentRequests(sent) == SelectSeq(sent, LAMBDA r : r.url[1] = CINEMETA_URL[1])

\* C11: get_content_details asks the metadata service exactly when an
\* external identifier was extracted; an identifier is set only if the page
\* has a link containing "imdb" with a path segment after "title/"; without
\* an identifier nothing is asked and title, poster and background are the
\* scraped ones.
C11_EnrichmentOnlyWithExternalId ==
    op = "details" =>
        /\ Len(EnrichmentRequests(reqs)) = (IF IdExtracted(arg.page) THEN 1 ELSE 0)
        /\ ~ret.none => (ret.val.imdb_id # <<>> <=> IdExtracted(arg.page))
        /\ (~ret.none /\ ret.val.imdb_id # <<>>) =>
               \E i \in 1..Len(arg.page.doc.hrefs) :
                   LET href == arg.page.doc.hrefs[i]
                   IN  /\ MentionsImdb(href)
                       /\ HasTitleSegment(href)
                       /\ \E k \in 1..(Len(href) - 1) :
                              href[k] = "title/" /\ ret.val.imdb_id[1] = href[k + 1]
        /\ (~ret.none /\ ret.val.imdb_id = <<>>) =>
               /\ EnrichmentRequests(reqs) = <<>>
               /\ ret.val.title = ScrapedTitle(arg.page.doc)
               /\ ret.val.poster = ScrapedPoster(arg.page.doc)
               /\ ret.val.background = ScrapedPoster(arg.page.doc)

\* A page whose first imdb link has no identifier, met by a metadata service
\* that would have given another name: nothing is asked, the scraped title stays.
C11_Witness ==
    /\ op = "details"
    /\ arg.page.sent /\ arg.page.status = OK
    /\ \E i \in 1..Len(arg.page.doc.hrefs) : MentionsImdb(arg.page.doc.hrefs[i])
    /\ ~IdExtracted(arg.page)
    /\ arg.cinemeta.sent /\ arg.cinemeta.status = OK
    /\ arg.cinemeta.body.has /\ "name" \in DOMAIN arg.cinemeta.body.meta.fields
    /\ ~ret.none
    /\ ret.val.title # <<>>
    /\ ret.val.title = ScrapedTitle(arg.page.doc)
    /\ EnrichmentRequests(reqs) = <<>>

----------------------------------------------------------------------------
(* Process-lifetime state properties *)

\* C12: the base URL is resolved once, at construction, and never written
\* again: after any requests main_url is the value resolved then and the
\* pointer document has been fetched exactly once; and it is the only state
\* shared by the requests that a request changes or depends on, so all that
\* outlives a request is as construction left it.
C12_BaseUrlOnlySharedState ==
    /\ main_url = _get_base_url(pointer).val
    /\ pointerFetches = 1
    /\ session = NewSession

\* C12 as amended: after any requests main_url is the value resolved at
\* construction and the pointer document has been fetched exactly once; the
\* session made with it is shared by the requests too, keeps its headers,
\* and only gains cookies.
C12_BaseUrlResolvedOnce ==
    /\ main_url = _get_base_url(pointer).val
    /\ pointerFetches = 1
    /\ session.headers = NewSession.headers
    /\ session.cookies \subseteq SessionCookies

\* A stream request, which asks nothing of anyone, served by a process whose
\* session carries a cookie that an earlier request left there.
C12_Witness ==
    /\ op = "stream"
    /\ reqs = <<>>
    /\ session.cookies # {}
    /\ main_url = _get_base_url(pointer).val
    /\ pointerFetches = 1

====
